---- MODULE Spec2Model ----
(***************************************************************************)
(* Conversation store of the Neo Japan landing page (ChatContext.jsx, kept *)
(* in src/README.md lines 107-213) and the components that drive it.       *)
(*                                                                         *)
(* A text is a sequence of fragments.  Text typed by the user is a         *)
(* sequence of one-character fragments, so that trim, toLowerCase and      *)
(* includes are computed character by character; each literal message of   *)
(* the store is one fragment holding the literal.                          *)
(* Time is in milliseconds, as returned by Date.now().                     *)
(*                                                                         *)
(* The scene engine (ParallaxScene.jsx) is modelled next to the store: the *)
(* numbers of the scene are exact fractions [n, d] in lowest terms, so the *)
(* rounding of IEEE doubles is left aside.  The specifications of the      *)
(* store hold the form and the scene still, and the specification of the   *)
(* scene holds the store still.                                            *)
(***************************************************************************)
EXTENDS Integers, Sequences, FiniteSets, TLC

VARIABLES
  messages,   \* useState: the transcript, a sequence of message records
  isOpen,     \* useState: the widget is shown
  isLoading,  \* useState: the busy flag
  pending,    \* the sendMessage calls suspended at their await, in call order
  now,        \* Date.now()
  event,      \* the event the event loop handled last
  input,      \* ChatBot.jsx useState: the text in the form's field
  pageYOffset,     \* the window: its vertical scroll offset
  docScrollHeight,  \* the window: document.documentElement.scrollHeight
  innerHeight,      \* the window: window.innerHeight
  scrollProgress,   \* ParallaxScene.jsx useState: the stored progress
  styles,     \* the values the last render of the scene derived from it
  drawn       \* the state Math.random()'s generator was in at that render

store == <<messages, isOpen, isLoading, pending, now, event>>
form  == <<input>>
scene == <<pageYOffset, docScrollHeight, innerHeight, scrollProgress, styles, drawn>>
vars  == <<store, form, scene>>

(* ------------------------------ bounds --------------------------------- *)
MountTime  == 5     \* Date.now() when ChatProvider mounts
MaxNow     == 2006  \* the clock stops here
MaxSkew    == 1     \* one-millisecond steps taken between two timer expiries
MaxPending == 2     \* sendMessage calls in flight at once
MaxMsgs    == 5     \* messages in the transcript, those still owed included
MaxSeed    == 2     \* states the generator behind Math.random() is found in

(* --------------------------- strings of JS ------------------------------ *)
UpperCase == <<"A","B","C","D","E","F","G","H","I","J","K","L","M",
               "N","O","P","Q","R","S","T","U","V","W","X","Y","Z">>
LowerCase == <<"a","b","c","d","e","f","g","h","i","j","k","l","m",
               "n","o","p","q","r","s","t","u","v","w","x","y","z">>
WhiteSpace == {" ", "\t", "\n"}

\* the lower-case letter of each upper-case letter
LowerOf ==
  [c \in {UpperCase[i] : i \in 1..Len(UpperCase)} |->
     LowerCase[CHOOSE i \in 1..Len(UpperCase) : UpperCase[i] = c]]

\* String.prototype.toLowerCase, one character
LowerChar(c) == IF c \in DOMAIN LowerOf THEN LowerOf[c] ELSE c

\* String.prototype.toLowerCase
toLowerCase(s) == [i \in 1..Len(s) |-> LowerChar(s[i])]

\* String.prototype.trim: strips white space at both ends
trim(s) ==
  LET inked == {i \in 1..Len(s) : s[i] \notin WhiteSpace}
  IN  IF inked = {} THEN <<>>
      ELSE LET lo == CHOOSE i \in inked : \A j \in inked : i <= j
               hi == CHOOSE i \in inked : \A j \in inked : j <= i
           IN  SubSeq(s, lo, hi)

\* String.prototype.includes
includes(s, sub) ==
  \E k \in 0..(Len(s) - Len(sub)) : \A j \in 1..Len(sub) : s[k + j] = sub[j]

(* --------------------------- literals of the store ---------------------- *)
kwHello      == <<"h","e","l","l","o">>
kwHi         == <<"h","i">>
kwJapan      == <<"j","a","p","a","n">>
kwJapanese   == <<"j","a","p","a","n","e","s","e">>
kwWaterfall  == <<"w","a","t","e","r","f","a","l","l">>
kwWater      == <<"w","a","t","e","r">>
kwFuture     == <<"f","u","t","u","r","e">>
kwTechnology == <<"t","e","c","h","n","o","l","o","g","y">>

WelcomeText  == <<"Welcome to Neo Japan. How may I assist you today?">>
HelloText    == <<"Hello! Welcome to Neo Japan. How can I help you explore our world?">>
JapanText    == <<"Japan is known for its unique blend of ancient traditions and futuristic technology. Our landscape brings this duality to life.">>
WaterText    == <<"The waterfalls you see represent the flow of time, connecting the traditional past with the technological future.">>
FutureText   == <<"The futuristic elements symbolize Japan's innovation and technological advancements, creating harmony with natural beauty.">>
DefaultText  == <<"Thank you for your interest. As you explore our Neo Japan landscape, feel free to ask about the waterfalls, mountains, technology, or any element you see.">>
ApologyText  == <<"I apologize, but I'm having trouble connecting. Please try again later.">>

Delay == 1000   \* setTimeout(resolve, 1000)

(* ------------------------------ inputs ---------------------------------- *)
txtEmpty         == <<>>
txtBlank         == <<" "," "," ">>
txtHelloThere    == <<"H","e","l","l","o"," ","t","h","e","r","e">>
txtJapan         == <<"T","e","l","l"," ","m","e"," ","a","b","o","u","t"," ","J","a","p","a","n">>
txtOk            == <<" ","o","k"," ">>

wNone            == <<>>
wHello           == <<"H","e","l","l","o">>
wHi              == <<"h","i">>
wJapan           == <<"J","a","p","a","n">>
wJapanese        == <<"j","a","p","a","n","e","s","e">>
wWaterfall       == <<"w","a","t","e","r","f","a","l","l">>
wWater           == <<"W","A","T","E","R">>
wFuture          == <<"f","u","t","u","r","e">>
wTechnology      == <<"T","e","c","h","n","o","l","o","g","y">>
wThis            == <<"t","h","i","s">>
wMountain        == <<"m","o","u","n","t","a","i","n">>

Words == {wNone, wHello, wHi, wJapan, wJapanese, wWaterfall, wWater, wFuture, wTechnology, wThis, wMountain}

\* one word, or two with a space between, and the two texts of the examples
Phrases ==
  Words \cup {a \o <<" ">> \o b : a \in Words, b \in Words}
        \cup {txtHelloThere, txtJapan}

\* the texts handed to sendMessage
Texts == {txtEmpty, txtBlank, txtJapan, txtOk}

(* ------------------------------ messages -------------------------------- *)
\* new Date().toISOString() names the instant to the millisecond; the model
\* keeps the instant.
toISOString(t) == t

\* the message useState starts with
initialMessage(t) ==
  [id |-> 1, text |-> WelcomeText, sender |-> "bot", timestamp |-> toISOString(t)]

\* const userMessage = { id: Date.now(), text, sender: "user", ... }
userMessage(text, t) ==
  [id |-> t, text |-> text, sender |-> "user", timestamp |-> toISOString(t)]

\* the chain with its first two branches exchanged
responseJapanFirst(text) ==
  IF includes(toLowerCase(text), kwJapan) \/ includes(toLowerCase(text), kwJapanese)
    THEN JapanText
  ELSE IF includes(toLowerCase(text), kwHello) \/ includes(toLowerCase(text), kwHi)
    THEN HelloText
  ELSE IF includes(toLowerCase(text), kwWaterfall) \/ includes(toLowerCase(text), kwWater)
    THEN WaterText
  ELSE IF includes(toLowerCase(text), kwFuture) \/ includes(toLowerCase(text), kwTechnology)
    THEN FutureText
  ELSE DefaultText

\* the if / else-if chain that picks the reply
response(text) ==
  IF includes(toLowerCase(text), kwHello) \/ includes(toLowerCase(text), kwHi)
    THEN HelloText
  ELSE IF includes(toLowerCase(text), kwJapan) \/ includes(toLowerCase(text), kwJapanese)
    THEN JapanText
  ELSE IF includes(toLowerCase(text), kwWaterfall) \/ includes(toLowerCase(text), kwWater)
    THEN WaterText
  ELSE IF includes(toLowerCase(text), kwFuture) \/ includes(toLowerCase(text), kwTechnology)
    THEN FutureText
  ELSE DefaultText

\* const botMessage = { id: Date.now() + 1, text: response, sender: "bot", ... }
botMessage(text, t) ==
  [id |-> t + 1, text |-> response(text), sender |-> "bot", timestamp |-> toISOString(t)]

\* const errorMessage = { id: Date.now() + 1, text: "I apologize...", ... }
errorMessage(t) ==
  [id |-> t + 1, text |-> ApologyText, sender |-> "bot", timestamp |-> toISOString(t)]

\* the message clearChat installs
clearedMessage(t) ==
  [id |-> 1, text |-> WelcomeText, sender |-> "bot", timestamp |-> toISOString(t)]

\* an event: the operation, the text it was called with, and the state of
\* the promise the async sendMessage returned ("none" for the other events)
Ev(name, text, promise) == [name |-> name, text |-> text, promise |-> promise]

(* ------------------------- numbers of the scene ------------------------- *)
RECURSIVE GCD(_, _)
GCD(a, b) == IF b = 0 THEN a ELSE GCD(b, a % b)

Abs(x) == IF x < 0 THEN -x ELSE x

\* the number n / d, in lowest terms and with d > 0
Rat(n, d) ==
  LET s == IF d < 0 THEN -1 ELSE 1
      g == GCD(Abs(n), Abs(d))
  IN  [n |-> (s * n) \div g, d |-> (s * d) \div g]

Zero == Rat(0, 1)
One  == Rat(1, 1)

Less(a, b)   == a.n * b.d < b.n * a.d
LessEq(a, b) == a.n * b.d <= b.n * a.d
Plus(a, b)   == Rat(a.n * b.d + b.n * a.d, a.d * b.d)
Minus(a, b)  == Rat(a.n * b.d - b.n * a.d, a.d * b.d)
Times(a, b)  == Rat(a.n * b.n, a.d * b.d)
min(a, b)    == IF LessEq(a, b) THEN a ELSE b
max(a, b)    == IF LessEq(a, b) THEN b ELSE a

(* --------------------------- the scene engine --------------------------- *)
\* what the window reports: scroll offsets (overscroll below 0 and beyond
\* the extent included), document heights and viewport heights
Offsets      == {-30, 0, 1, 49, 50, 99, 100, 150, 200}
DocHeights   == {600, 700, 800}
InnerHeights == {600, 700}

\* window.pageYOffset || document.documentElement.scrollTop
scrollTop(yOffset, elemScrollTop) == IF yOffset # 0 THEN yOffset ELSE elemScrollTop

\* document.documentElement.scrollHeight - window.innerHeight
scrollHeight(docHeight, viewHeight) == docHeight - viewHeight

\* scrollHeight > 0 ? scrollTop / scrollHeight : 0
progress(top, height) == IF height > 0 THEN Rat(top, height) ELSE Zero

\* the progress stored as it was computed
unclamped(p) == p

\* Math.min(Math.max(progress, 0), 1)
clamped(p) == min(max(p, Zero), One)

\* the values derived from the stored progress at each render
skyOpacity(p)     == Minus(One, Times(p, Rat(8, 10)))
mountainFarY(p)   == Times(p, Rat(10, 1))

\* the middle layer moving faster than the close one
mountainMidYSteep(p) == Times(p, Rat(25, 1))

mountainMidY(p)   == Times(p, Rat(15, 1))
mountainCloseY(p) == Times(p, Rat(20, 1))
waterfallScale(p) == Plus(One, Times(p, Rat(2, 10)))
treesY(p)         == Times(p, Rat(5, 1))
futuristicElementsOpacity(p) == min(Plus(Rat(2, 10), Times(p, Rat(8, 10))), One)
futuristicElementsScale(p)   == Plus(Rat(9, 10), Times(p, Rat(2, 10)))
moonTop(p)        == Minus(Rat(100, 1), Times(p, Rat(80, 1)))

\* the moon's opacity without its cap
moonOpacityUncapped(p) == Times(p, Rat(2, 1))

moonOpacity(p)    == min(Times(p, Rat(2, 1)), One)
starsOpacity(p)   == min(Times(p, Rat(15, 10)), One)

DayGradient   == "linear-gradient(to bottom, #1e40af 0%, #3b82f6 50%, #93c5fd 100%)"
DuskGradient  == "linear-gradient(to bottom, #1e3a8a 0%, #1e40af 50%, #3b82f6 100%)"
NightGradient == "linear-gradient(to bottom, #0f172a 0%, #1e293b 50%, #334155 100%)"

\* the day lasting up to and including the half
getSkyGradientLate(p) ==
  IF LessEq(p, Rat(1, 2)) THEN DayGradient
  ELSE IF Less(p, One) THEN DuskGradient
  ELSE NightGradient

getSkyGradient(p) ==
  IF Less(p, Rat(1, 2)) THEN DayGradient
  ELSE IF Less(p, One) THEN DuskGradient
  ELSE NightGradient

\* the style values one render of ParallaxScene hands to the layers
Styles(p) ==
  [ skyGradient    |-> getSkyGradient(p),
    skyOpacity     |-> skyOpacity(p),
    moonTop        |-> moonTop(p),
    moonOpacity    |-> moonOpacity(p),
    starsOpacity   |-> starsOpacity(p),
    mountainFarY   |-> mountainFarY(p),
    mountainMidY   |-> mountainMidY(p),
    mountainCloseY |-> mountainCloseY(p),
    waterfallScale |-> waterfallScale(p),
    treesY         |-> treesY(p),
    futuristicElementsOpacity |-> futuristicElementsOpacity(p),
    futuristicElementsScale   |-> futuristicElementsScale(p),
    toriiY         |-> Times(p, Rat(3, 1)),
    toriiScale     |-> Plus(One, Times(p, Rat(5, 100))) ]

\* Math.random(): the k-th number, in [0, 1), that a render draws when it
\* finds the generator in state seed.  A render may find the generator in
\* any state of Seeds; within one render the draws follow one another.
Seeds == 0..MaxSeed
random(seed, k) == Rat((seed * 3 + k * 7) % 10, 10)

StarCount == 100
DotCount  == 20

\* the i-th star of a render, five draws each
star(seed, i) ==
  [ key            |-> i,
    x              |-> Times(random(seed, 5 * i + 1), Rat(100, 1)),
    y              |-> Times(random(seed, 5 * i + 2), Rat(100, 1)),
    size           |-> Plus(Times(random(seed, 5 * i + 3), Rat(2, 1)), One),
    opacity        |-> Plus(Times(random(seed, 5 * i + 4), Rat(7, 10)), Rat(3, 10)),
    animationDelay |-> Times(random(seed, 5 * i + 5), Rat(5, 1)) ]

\* the i-th glowing dot of a render, five draws each, drawn after the stars
dot(seed, i) ==
  [ key            |-> i,
    x              |-> Times(random(seed, 5 * StarCount + 5 * i + 1), Rat(100, 1)),
    y              |-> Plus(Times(random(seed, 5 * StarCount + 5 * i + 2), Rat(40, 1)), Rat(10, 1)),
    size           |-> Plus(Times(random(seed, 5 * StarCount + 5 * i + 3), Rat(3, 1)), Rat(2, 1)),
    isBlue         |-> Less(Rat(1, 2), random(seed, 5 * StarCount + 5 * i + 4)),
    animationDelay |-> Times(random(seed, 5 * StarCount + 5 * i + 5), Rat(2, 1)) ]

\* the particle fields a render draws, for each state of the generator
Stars == [seed \in Seeds |-> [i \in 0..(StarCount - 1) |-> star(seed, i)]]
Dots  == [seed \in Seeds |-> [i \in 0..(DotCount - 1) |-> dot(seed, i)]]

\* the star field and the glowing dots on the page: those of the last render
stars == Stars[drawn]
dots  == Dots[drawn]

\* one render of ParallaxScene with the progress p
render(p, seed) ==
  /\ styles' = Styles(p)
  /\ drawn'  = seed

\* ParallaxScene mounts: useState(0) and the first render
mount(docHeight, viewHeight, seed) ==
  /\ pageYOffset     = 0
  /\ docScrollHeight = docHeight
  /\ innerHeight     = viewHeight
  /\ scrollProgress  = Zero
  /\ styles          = Styles(Zero)
  /\ drawn           = seed

\* the scroll listener: a state update with the value already stored does
\* not render again
handleScroll(yOffset, elemScrollTop, seed) ==
  \E p \in {clamped(progress(scrollTop(yOffset, elemScrollTop),
                             scrollHeight(docScrollHeight, innerHeight)))} :
    /\ scrollProgress' = p
    /\ IF p # scrollProgress
       THEN render(p, seed)
       ELSE UNCHANGED <<styles, drawn>>

\* the window scrolls to an offset and dispatches the scroll event
Scroll ==
  \E y \in Offsets : \E seed \in Seeds :
    /\ pageYOffset' = y
    /\ handleScroll(y, y, seed)
    /\ event' = Ev("scroll", <<>>, "none")
    /\ UNCHANGED <<docScrollHeight, innerHeight>>

\* the document or the viewport changes height; no listener is registered
\* for that
Resize ==
  \E h \in DocHeights : \E v \in InnerHeights :
    /\ <<h, v>> # <<docScrollHeight, innerHeight>>
    /\ docScrollHeight' = h
    /\ innerHeight'     = v
    /\ event' = Ev("resize", <<>>, "none")
    /\ UNCHANGED <<pageYOffset, scrollProgress, styles, drawn>>

\* LandingPage renders again (the store it reads through useChat changed)
\* and ParallaxScene, which is not memoized, renders with it
Rerender ==
  \E seed \in Seeds :
    /\ render(scrollProgress, seed)
    /\ event' = Ev("render", <<>>, "none")
    /\ UNCHANGED <<pageYOffset, docScrollHeight, innerHeight, scrollProgress>>

(* ------------------------------ the store ------------------------------- *)
Init ==
  /\ messages  = <<initialMessage(MountTime)>>
  /\ isOpen    = FALSE
  /\ isLoading = FALSE
  /\ pending   = <<>>
  /\ now       = MountTime
  /\ event     = Ev("mount", <<>>, "none")
  /\ input     = <<>>
  /\ mount(800, 600, 0)

\* room for one more exchange within the bounds
Room ==
  /\ Len(pending) < MaxPending
  /\ Len(messages) + Len(pending) + 2 <= MaxMsgs
  /\ now + Delay <= MaxNow

\* sendMessage forgetting setIsLoading(true)
sendMessageNoLoading(text) ==
  IF trim(text) = <<>>
  THEN /\ event' = Ev("sendMessage", text, "fulfilled")
       /\ UNCHANGED <<messages, isOpen, isLoading, pending, now>>
  ELSE /\ Room
       /\ event' = Ev("sendMessage", text, "pending")
       /\ messages'  = Append(messages, userMessage(text, now))
       /\ pending'   = Append(pending,
                         [text |-> text, due |-> now + Delay, userId |-> now])
       /\ UNCHANGED <<isOpen, isLoading, now>>

\* sendMessage testing !text in place of !text.trim()
sendMessageNoTrim(text) ==
  IF text = <<>>
  THEN /\ event' = Ev("sendMessage", text, "fulfilled")
       /\ UNCHANGED <<messages, isOpen, isLoading, pending, now>>
  ELSE /\ Room
       /\ event' = Ev("sendMessage", text, "pending")
       /\ messages'  = Append(messages, userMessage(text, now))
       /\ isLoading' = TRUE
       /\ pending'   = Append(pending,
                         [text |-> text, due |-> now + Delay, userId |-> now])
       /\ UNCHANGED <<isOpen, now>>

\* sendMessage up to its await: the blank-text return, the optimistic append,
\* the busy flag, and the timer it arms
sendMessage(text) ==
  IF trim(text) = <<>>
  THEN /\ event' = Ev("sendMessage", text, "fulfilled")
       /\ UNCHANGED <<messages, isOpen, isLoading, pending, now>>
  ELSE /\ Room
       /\ event' = Ev("sendMessage", text, "pending")
       /\ messages'  = Append(messages, userMessage(text, now))
       /\ isLoading' = TRUE
       /\ pending'   = Append(pending,
                         [text |-> text, due |-> now + Delay, userId |-> now])
       /\ UNCHANGED <<isOpen, now>>

\* setTimeout: of the armed timers that have expired, the one the event loop
\* runs next is the one due first, the one armed first among equals
timerToFire(q, t) ==
  IF \E i \in 1..Len(q) : q[i].due <= t
  THEN CHOOSE i \in 1..Len(q) :
         /\ q[i].due <= t
         /\ \A j \in 1..Len(q) :
              q[j].due <= t => (q[i].due < q[j].due \/ (q[i].due = q[j].due /\ i <= j))
  ELSE 0

Without(q, i) == SubSeq(q, 1, i - 1) \o SubSeq(q, i + 1, Len(q))

\* the text kept in one place shared by all calls: the latest call's
latestCall(q, i) == q[Len(q)]

\* the call whose text the resumed sendMessage closes over
resumedCall(q, i) == q[i]

\* sendMessage resumed after its await, the try block running to its end,
\* then the finally block
sendMessageResponse ==
  \E i \in {timerToFire(pending, now)} \ {0} :
  \E call \in {resumedCall(pending, i)} :
  /\ messages'  = Append(messages, botMessage(call.text, now))
  /\ isLoading' = FALSE
  /\ pending'   = Without(pending, i)
  /\ event'     = Ev("response", pending[i].text, "fulfilled")
  /\ UNCHANGED <<isOpen, now>>

\* the catch block only logging
sendMessageCatchLogOnly ==
  \E i \in {timerToFire(pending, now)} \ {0} :
  /\ isLoading' = FALSE
  /\ pending'   = Without(pending, i)
  /\ event'     = Ev("catch", pending[i].text, "fulfilled")
  /\ UNCHANGED <<messages, isOpen, now>>

\* setIsLoading(false) at the end of the try block, no finally block
sendMessageCatchNoFinally ==
  \E i \in {timerToFire(pending, now)} \ {0} :
  /\ messages'  = Append(messages, errorMessage(now))
  /\ pending'   = Without(pending, i)
  /\ event'     = Ev("catch", pending[i].text, "fulfilled")
  /\ UNCHANGED <<isOpen, isLoading, now>>

\* the catch block taking the optimistic user message back out
sendMessageCatchRollback ==
  \E i \in {timerToFire(pending, now)} \ {0} :
  /\ messages'  = Append(SelectSeq(messages, LAMBDA m : m.id # pending[i].userId),
                         errorMessage(now))
  /\ isLoading' = FALSE
  /\ pending'   = Without(pending, i)
  /\ event'     = Ev("catch", pending[i].text, "fulfilled")
  /\ UNCHANGED <<isOpen, now>>

\* sendMessage resumed, the try block throwing: the catch block, then finally
sendMessageCatch ==
  \E i \in {timerToFire(pending, now)} \ {0} :
  /\ messages'  = Append(messages, errorMessage(now))
  /\ isLoading' = FALSE
  /\ pending'   = Without(pending, i)
  /\ event'     = Ev("catch", pending[i].text, "fulfilled")
  /\ UNCHANGED <<isOpen, now>>

\* setIsOpen(true)
toggleIsOpenStuck(prev) == TRUE

\* setIsOpen(prev => !prev)
toggleIsOpen(prev) == ~prev

toggleChat ==
  /\ isOpen' = toggleIsOpen(isOpen)
  /\ event'  = Ev("toggleChat", <<>>, "none")
  /\ UNCHANGED <<messages, isLoading, pending, now>>

\* clearChat emptying the transcript: setMessages([])
clearChatEmpty ==
  /\ messages' = <<>>
  /\ event'    = Ev("clearChat", <<>>, "none")
  /\ UNCHANGED <<isOpen, isLoading, pending, now>>

clearChat ==
  /\ messages' = <<clearedMessage(now)>>
  /\ event'    = Ev("clearChat", <<>>, "none")
  /\ UNCHANGED <<isOpen, isLoading, pending, now>>

\* the instants the clock moves to next: one millisecond on, or on to the
\* expiry of the next timer
NextTimes ==
  {now + 1 : x \in {y \in {0} : (now - MountTime) % Delay < MaxSkew /\ now + 1 <= MaxNow}}
  \cup {pending[i].due : i \in {j \in 1..Len(pending) :
          pending[j].due > now /\ \A k \in 1..Len(pending) : pending[j].due <= pending[k].due}}

Tick ==
  /\ \E t \in NextTimes : now' = t
  /\ event' = Ev("tick", <<>>, "none")
  /\ UNCHANGED <<messages, isOpen, isLoading, pending>>

(* ------------------------------- the form ------------------------------- *)
\* ChatBot is rendered by LandingPage only while isOpen; it reads isLoading
\* from the store and keeps the text of its field in input

\* a form that does not look at the busy flag
formIsLoadingIgnored == FALSE

\* const { ..., isLoading } = useChat()
formIsLoading == isLoading

\* <input disabled={isLoading}>
inputDisabled == formIsLoading

\* <button type="submit" disabled={!input.trim() || isLoading}>
sendDisabled == trim(input) = <<>> \/ formIsLoading

\* onChange={(e) => setInput(e.target.value)}: typing in the enabled field
handleChange(text) ==
  /\ isOpen
  /\ ~inputDisabled
  /\ input' = text
  /\ event' = Ev("change", text, "none")
  /\ UNCHANGED <<messages, isOpen, isLoading, pending, now>>

\* the submit event, raised by a click on the send button or by Enter in the
\* field, neither of which submits a form whose submit button is disabled
handleSubmit ==
  /\ isOpen
  /\ ~sendDisabled
  /\ IF trim(input) # <<>>
     THEN /\ sendMessage(input)
          /\ input' = <<>>
     ELSE /\ event' = Ev("submit", input, "none")
          /\ UNCHANGED <<messages, isOpen, isLoading, pending, now, input>>

\* the chat button, or the close button of the widget: ChatBot unmounts on
\* closing and mounts with useState('') on opening
formToggleChat ==
  /\ toggleChat
  /\ input' = <<>>

\* the clear button of the widget
formClearChat ==
  /\ isOpen
  /\ clearChat
  /\ UNCHANGED input

\* the store as the code runs it: the awaited timer never rejects and the
\* reply chain cannot throw on a string
Next ==
  \/ (\E text \in Texts : sendMessage(text)) /\ UNCHANGED <<form, scene>>
  \/ sendMessageResponse /\ UNCHANGED <<form, scene>>
  \/ toggleChat /\ UNCHANGED <<form, scene>>
  \/ clearChat /\ UNCHANGED <<form, scene>>
  \/ Tick /\ UNCHANGED <<form, scene>>

Spec == Init /\ [][Next]_vars


\* the store with a response step that may fail, driven with one blank and
\* one non-blank text (beyond being blank or not, the text decides nothing
\* about the transcript's shape or about isLoading)
NextFault ==
  \/ (\E text \in {txtBlank, txtOk} : sendMessage(text)) /\ UNCHANGED <<form, scene>>
  \/ sendMessageResponse /\ UNCHANGED <<form, scene>>
  \/ sendMessageCatch /\ UNCHANGED <<form, scene>>
  \/ toggleChat /\ UNCHANGED <<form, scene>>
  \/ clearChat /\ UNCHANGED <<form, scene>>
  \/ Tick /\ UNCHANGED <<form, scene>>

SpecFault == Init /\ [][NextFault]_vars

\* the timers fire and the resumed calls run: the event loop is never starved
SpecLive ==
  /\ Init /\ [][NextFault]_vars
  /\ WF_vars(Tick /\ UNCHANGED <<form, scene>>)
  /\ WF_vars((sendMessageCatch \/ sendMessageResponse) /\ UNCHANGED <<form, scene>>)

\* the reply chain driven over Phrases, one exchange at a time on a cleared
\* transcript
NextReply ==
  \/ \E text \in Phrases :
       /\ pending = <<>>
       /\ Len(messages) = 1
       /\ sendMessage(text)
       /\ UNCHANGED <<form, scene>>
  \/ sendMessageResponse /\ UNCHANGED <<form, scene>>
  \/ clearChat /\ UNCHANGED <<form, scene>>
  \/ Tick /\ UNCHANGED <<form, scene>>

SpecReply == Init /\ [][NextReply]_vars

\* the scene alone: the window scrolls and changes height, the page renders
\* again; the store and the form stay as they were mounted
InitScene ==
  /\ messages  = <<initialMessage(MountTime)>>
  /\ isOpen    = FALSE
  /\ isLoading = FALSE
  /\ pending   = <<>>
  /\ now       = MountTime
  /\ event     = Ev("mount", <<>>, "none")
  /\ input     = <<>>
  /\ \E h \in DocHeights : \E v \in InnerHeights : \E seed \in Seeds : mount(h, v, seed)

NextScene ==
  \/ Scroll /\ UNCHANGED <<messages, isOpen, isLoading, pending, now, form>>
  \/ Resize /\ UNCHANGED <<messages, isOpen, isLoading, pending, now, form>>
  \/ Rerender /\ UNCHANGED <<messages, isOpen, isLoading, pending, now, form>>

SpecScene == InitScene /\ [][NextScene]_vars

\* the store driven through the page only: the chat button and the form
NextForm ==
  \/ (\E text \in Texts : handleChange(text)) /\ UNCHANGED scene
  \/ handleSubmit /\ UNCHANGED scene
  \/ formToggleChat /\ UNCHANGED scene
  \/ formClearChat /\ UNCHANGED scene
  \/ sendMessageResponse /\ UNCHANGED <<form, scene>>
  \/ Tick /\ UNCHANGED <<form, scene>>

SpecForm == Init /\ [][NextForm]_vars

(* ------------------------------ properties ------------------------------ *)
Last(q) == q[Len(q)]

IsPrefix(p, q) == Len(p) <= Len(q) /\ SubSeq(q, 1, Len(p)) = p

\* id, text and sender of a message
Canonical(m) == [id |-> m.id, text |-> m.text, sender |-> m.sender]

\* C1: a sendMessage with a text that is not blank, made while no response is
\* pending, appends one user message carrying the text and raises isLoading
\* in the same step, the timer still running; the step that resumes it when
\* the timer has expired appends one bot message at the end and lowers
\* isLoading.
C1_SubmitThenReply ==
  [][ /\ (event'.name = "sendMessage" /\ trim(event'.text) # <<>> /\ pending = <<>>) =>
           /\ Len(messages') = Len(messages) + 1
           /\ IsPrefix(messages, messages')
           /\ Last(messages').sender = "user"
           /\ Last(messages').text = event'.text
           /\ isLoading'
           /\ Len(pending') = 1
           /\ pending'[1].due > now'
      /\ (event'.name = "response") =>
           /\ pending # <<>>
           /\ \E i \in 1..Len(pending) : pending[i].due <= now
           /\ Len(messages') = Len(messages) + 1
           /\ IsPrefix(messages, messages')
           /\ Last(messages').sender = "bot"
           /\ Len(pending') = Len(pending) - 1
           /\ ~isLoading'
    ]_vars

\* a whole exchange has run on the initial transcript
C1_Witness ==
  /\ event.name = "response"
  /\ Len(messages) = 3
  /\ messages[2].sender = "user"
  /\ messages[3].sender = "bot"
  /\ pending = <<>>
  /\ ~isLoading

\* C3: a sendMessage with an empty or all-white-space text changes neither
\* the transcript nor isLoading nor isOpen and arms no timer.
C3_BlankIsNoOp ==
  [][ (event'.name = "sendMessage" /\ trim(event'.text) = <<>>) =>
        UNCHANGED <<messages, isLoading, isOpen, pending>> ]_vars

\* an all-white-space text was submitted while a response was pending
C3_Witness ==
  /\ event.name = "sendMessage"
  /\ event.text # <<>>
  /\ \A k \in 1..Len(event.text) : event.text[k] = " "
  /\ isLoading
  /\ pending # <<>>

\* C5: clearChat leaves exactly one message, equal in id, text and sender to
\* the message the store starts with, and leaves isOpen alone.
C5_ResetToGreeting ==
  [][ event'.name = "clearChat" =>
        /\ Len(messages') = 1
        /\ Canonical(messages'[1]) = Canonical(initialMessage(MountTime))
        /\ isOpen' = isOpen ]_vars

\* clearChat ran on a transcript that held an exchange still in flight, the
\* widget open
C5_Witness ==
  /\ event.name = "clearChat"
  /\ Len(messages) = 1
  /\ pending # <<>>
  /\ now > MountTime + Delay
  /\ isOpen

\* C6: toggleChat negates isOpen and leaves the transcript and isLoading
\* alone; negating twice gives the value back.
C6_ToggleFlips ==
  [][ event'.name = "toggleChat" =>
        /\ isOpen' = ~isOpen
        /\ toggleIsOpen(isOpen') = isOpen
        /\ UNCHANGED <<messages, isLoading, pending>> ]_vars

\* the widget was toggled shut while a response was pending
C6_Witness ==
  /\ event.name = "toggleChat"
  /\ ~isOpen
  /\ isLoading
  /\ pending # <<>>

\* C7: every step but clearChat keeps the old transcript as a prefix of the
\* new one.
C7_AppendOnly ==
  [][ event'.name # "clearChat" => IsPrefix(messages, messages') ]_vars

\* two overlapping calls have both been answered, one of them by the apology
C7_Witness ==
  /\ Len(messages) = 5
  /\ messages[2].sender = "user"
  /\ messages[3].sender = "user"
  /\ messages[4].sender = "bot"
  /\ messages[5].text = ApologyText
  /\ event.name = "catch"

\* the rules in their order of priority
Rules ==
  << [keys |-> {kwHello, kwHi},            reply |-> HelloText],
     [keys |-> {kwJapan, kwJapanese},      reply |-> JapanText],
     [keys |-> {kwWaterfall, kwWater},     reply |-> WaterText],
     [keys |-> {kwFuture, kwTechnology},   reply |-> FutureText] >>

Matches(r, text) == \E k \in Rules[r].keys : includes(toLowerCase(text), k)

\* the reply of the first rule that matches, the default when none does
RuleReply(text) ==
  LET hits == {r \in 1..Len(Rules) : Matches(r, text)}
  IN  IF hits = {} THEN DefaultText
      ELSE Rules[CHOOSE r \in hits : \A q \in hits : r <= q].reply

\* C4: the bot message appended for a text carries the reply of the first
\* rule, in the order greeting, Japan, water, future, whose keyword the
\* lowercased text contains, and the default reply when there is none; a text
\* with a Japan keyword and no greeting keyword gets the Japan reply, which
\* is neither the greeting reply nor the default reply.
C4_FirstMatchWins ==
  [][ event'.name = "response" =>
        /\ Last(messages').text = RuleReply(event'.text)
        /\ (Matches(2, event'.text) /\ ~Matches(1, event'.text)) =>
             /\ Last(messages').text = JapanText
             /\ Last(messages').text \notin {HelloText, DefaultText} ]_vars

\* "Tell me about Japan" was answered
C4_Witness ==
  /\ event.name = "response"
  /\ event.text = txtJapan
  /\ Len(messages) = 3
  /\ messages[2].text = txtJapan
  /\ messages[3].text = JapanText

\* C8: the ids of the transcript strictly increase along it, and so are
\* pairwise distinct.
C8_IdsStrictlyIncrease ==
  \A i \in 1..Len(messages) : \A j \in 1..Len(messages) :
     i < j => messages[i].id < messages[j].id

\* C9: a sendMessage made while isLoading is true appends its user message
\* in the same step; the call resumed by a response step is the oldest one
\* pending, and the bot message appended is the reply to that call's text.
C9_OverlapInOrder ==
  [][ /\ (event'.name = "sendMessage" /\ trim(event'.text) # <<>> /\ isLoading) =>
           /\ Len(messages') = Len(messages) + 1
           /\ IsPrefix(messages, messages')
           /\ Last(messages').sender = "user"
           /\ Last(messages').text = event'.text
           /\ pending' = Append(pending, Last(pending'))
           /\ Last(pending').text = event'.text
      /\ (event'.name = "response") =>
           /\ pending # <<>>
           /\ pending' = Tail(pending)
           /\ Len(messages') = Len(messages) + 1
           /\ IsPrefix(messages, messages')
           /\ Last(messages').sender = "bot"
           /\ Last(messages').text = RuleReply(Head(pending).text)
    ]_vars

\* two calls with different replies overlapped; the first has been answered
\* and the second is still pending
C9_Witness ==
  /\ event.name = "response"
  /\ Len(pending) = 1
  /\ Len(messages) = 4
  /\ messages[2].sender = "user"
  /\ messages[3].sender = "user"
  /\ RuleReply(messages[2].text) # RuleReply(messages[3].text)
  /\ messages[4].sender = "bot"

\* C10: when the response step fails, one bot message with the apology text
\* is appended and nothing else, isLoading is lowered, and the promise of
\* sendMessage is fulfilled, not rejected.
C10_FailureRecovers ==
  [][ event'.name = "catch" =>
        /\ Len(messages') = Len(messages) + 1
        /\ IsPrefix(messages, messages')
        /\ Last(messages').sender = "bot"
        /\ Last(messages').text = ApologyText
        /\ ~isLoading'
        /\ Len(pending') = Len(pending) - 1
        /\ event'.promise = "fulfilled" ]_vars

\* a failed response step has been recovered from
C10_Witness ==
  /\ event.name = "catch"
  /\ Len(messages) = 3
  /\ messages[2].sender = "user"
  /\ messages[3].text = ApologyText
  /\ pending = <<>>
  /\ ~isLoading

\* C2: isLoading, once true, becomes false again; every call in flight is
\* resumed, after which isLoading is false for good (the submits of a
\* behaviour are finitely many); and only a sendMessage raises isLoading.
C2_LoadingEnds ==
  /\ (isLoading ~> ~isLoading)
  /\ <>[](pending = <<>> /\ ~isLoading)
  /\ [][ (~isLoading /\ isLoading') =>
           (event'.name = "sendMessage" /\ trim(event'.text) # <<>>) ]_vars

\* a call whose transcript was cleared during the delay has run to its end,
\* through the catch block, with the widget shut
C2_Witness ==
  /\ event.name = "catch"
  /\ ~isOpen
  /\ Len(messages) = 2
  /\ pending = <<>>
  /\ ~isLoading

(* ------------------------ properties of the scene ----------------------- *)
\* C11: the stored progress is never below 0 or above 1, and the scroll
\* listener stores the ratio of the scroll offset to the scrollable extent
\* (document height less viewport height) brought into [0, 1]: 0 when the
\* extent is not positive or the ratio is negative, 1 when the offset is
\* beyond the extent, the ratio itself otherwise.
C11_ProgressClamped ==
  [][ /\ LessEq(Zero, scrollProgress') /\ LessEq(scrollProgress', One)
      /\ event'.name = "scroll" =>
            LET top    == pageYOffset'
                extent == docScrollHeight' - innerHeight'
            IN  IF extent <= 0 \/ top <= 0 THEN scrollProgress' = Zero
                ELSE IF top >= extent THEN scrollProgress' = One
                ELSE scrollProgress'.n * extent = top * scrollProgress'.d
    ]_vars

\* a scroll beyond the extent has been sampled and stored as 1
C11_Witness ==
  /\ event.name = "scroll"
  /\ docScrollHeight - innerHeight > 0
  /\ pageYOffset > docScrollHeight - innerHeight
  /\ scrollProgress = One

InUnit(a) == LessEq(Zero, a) /\ LessEq(a, One)

\* C12: with the stored progress in [0, 1], the opacities of the sky, of the
\* moon and of the star field that the render derived are in [0, 1], the
\* opacity of the futuristic overlay is in [0.2, 1], and the scale of the
\* waterfall is at least 1.
C12_OpacitiesInRange ==
  InUnit(scrollProgress) =>
    /\ InUnit(styles.skyOpacity)
    /\ InUnit(styles.moonOpacity)
    /\ InUnit(styles.starsOpacity)
    /\ LessEq(Rat(2, 10), styles.futuristicElementsOpacity)
    /\ LessEq(styles.futuristicElementsOpacity, One)
    /\ LessEq(One, styles.waterfallScale)

\* a scroll has stored a progress past the half and short of 1, where the
\* caps of the moon and of the stars act
C12_Witness ==
  /\ event.name = "scroll"
  /\ Less(Rat(2, 3), scrollProgress) /\ Less(scrollProgress, One)
  /\ styles.moonOpacity = One
  /\ styles.starsOpacity = One
  /\ Less(styles.skyOpacity, One)

\* C13: the far mountains are displaced no more than the middle ones, and
\* these no more than the close ones, strictly less once the progress is
\* above 0; and when the stored progress grows from one render to the next,
\* none of the three displacements shrinks.
C13_LayersOrdered ==
  [][ /\ LessEq(styles'.mountainFarY, styles'.mountainMidY)
      /\ LessEq(styles'.mountainMidY, styles'.mountainCloseY)
      /\ Less(Zero, scrollProgress') =>
           /\ Less(styles'.mountainFarY, styles'.mountainMidY)
           /\ Less(styles'.mountainMidY, styles'.mountainCloseY)
      /\ LessEq(scrollProgress, scrollProgress') =>
           /\ LessEq(styles.mountainFarY, styles'.mountainFarY)
           /\ LessEq(styles.mountainMidY, styles'.mountainMidY)
           /\ LessEq(styles.mountainCloseY, styles'.mountainCloseY)
    ]_vars

\* a scroll has stored a progress strictly between 0 and 1 and the three
\* layers are strictly apart
C13_Witness ==
  /\ event.name = "scroll"
  /\ Less(Zero, scrollProgress) /\ Less(scrollProgress, One)
  /\ Less(styles.mountainFarY, styles.mountainMidY)
  /\ Less(styles.mountainMidY, styles.mountainCloseY)

\* C14: the sky is the Day gradient when the progress is below one half, the
\* Dusk gradient from one half up to but not including 1, and the Night
\* gradient at 1; the three gradients differ, so exactly one is selected.
C14_SkyPhase ==
  /\ Cardinality({DayGradient, DuskGradient, NightGradient}) = 3
  /\ styles.skyGradient \in {DayGradient, DuskGradient, NightGradient}
  /\ 2 * scrollProgress.n < scrollProgress.d => styles.skyGradient = DayGradient
  /\ (2 * scrollProgress.n >= scrollProgress.d /\ scrollProgress.n < scrollProgress.d)
       => styles.skyGradient = DuskGradient
  /\ scrollProgress.n = scrollProgress.d => styles.skyGradient = NightGradient

\* a scroll has stored exactly one half, and the sky is at dusk
C14_Witness ==
  /\ event.name = "scroll"
  /\ scrollProgress = Rat(1, 2)
  /\ styles.skyGradient = DuskGradient

\* C15: from one render to the next with a different progress, every star
\* and every glowing dot keeps its position, size, opacity, colour and
\* animation delay; the progress shows only in the opacity of the layer
\* around them.
C15_ParticlesStable ==
  [][ scrollProgress' # scrollProgress => (stars' = stars /\ dots' = dots) ]_vars

(* ---------------- properties of the store under overlap ----------------- *)
\* C16: isLoading is true in every state in which some accepted sendMessage
\* has not yet had its bot message appended.
C16_LoadingWhilePending == pending # <<>> => isLoading

\* C17: every bot message other than the greeting has, before it in the
\* transcript, the user message it answers.
C17_ReplyAfterQuestion ==
  \A j \in 1..Len(messages) :
    (messages[j].sender = "bot" /\ messages[j].id # 1) =>
      \E i \in 1..(j - 1) :
        /\ messages[i].sender = "user"
        /\ messages[j].text = response(messages[i].text)

(* ------------------------ properties of the form ------------------------ *)
\* C18: with submits made through the form of ChatBot only, at most one
\* response is pending at any time, however the submits interleave with
\* opening, closing and clearing the widget.
C18_OnePending == Len(pending) <= 1

\* a response is pending from a form submit, and the widget has been closed
\* and opened again during the delay, after a reset
C18_Witness ==
  /\ Len(pending) = 1
  /\ isLoading
  /\ isOpen
  /\ event.name = "toggleChat"
  /\ Len(messages) = 1
  /\ now > MountTime

====
